---- MODULE Spec2Model ----
(***************************************************************************)
(* Model of biotools' pairwise alignment display (src/src/main.rs):        *)
(* pairwise -> run_alignment -> orientation selection ->                   *)
(* make_display_lines -> format_display_lines.                             *)
(*                                                                         *)
(* Strings are sequences of one-character strings.  Rust indices are       *)
(* 0-based; s[i..i+1] in the source is s[i + 1] here.                      *)
(***************************************************************************)
EXTENDS Integers, Sequences, FiniteSets, TLC

(* ---------------------------- bounds ---------------------------------- *)
MaxSeqLen == 2
MaxSeqs == 3
MaxClip == 2
MaxLineWidth == 2
MaxFlank == 9

\* default_value_t of --gap-open and --gap-extend
DefaultGapOpen == 2
DefaultGapExtend == 1

Bases == {"A", "T"}
Digits == <<"0", "1", "2", "3", "4", "5", "6", "7", "8", "9">>
DigitChars == {Digits[i] : i \in 1..10}
NoText == <<"<none>">>
NoScore == -1
Unread == "unread"

(* ------------------------- string helpers ----------------------------- *)
Strings == UNION {[1..n -> Bases] : n \in 1..MaxSeqLen}

RECURSIVE Repeat(_, _)
Repeat(c, n) == IF n <= 0 THEN <<>> ELSE <<c>> \o Repeat(c, n - 1)

RECURSIVE to_string(_)
to_string(n) ==
    IF n < 10 THEN <<Digits[n + 1]>>
    ELSE to_string(n \div 10) \o <<Digits[(n % 10) + 1]>>

\* format!("{:>width$}", s): right-align, pad on the left, never truncate
pad_left(s, width) == Repeat(" ", width - Len(s)) \o s

RECURSIVE join(_, _)
join(parts, sep) ==
    IF Len(parts) = 0 THEN <<>>
    ELSE IF Len(parts) = 1 THEN parts[1]
    ELSE parts[1] \o sep \o join(Tail(parts), sep)

to_ascii_uppercase(c) ==
    CASE c = "a" -> "A" [] c = "c" -> "C" [] c = "g" -> "G"
      [] c = "t" -> "T" [] c = "u" -> "U" [] OTHER -> c

score(p, q) == IF to_ascii_uppercase(p) = to_ascii_uppercase(q) THEN 1 ELSE -1

complement(c) ==
    CASE c = "A" -> "T" [] c = "T" -> "A" [] c = "C" -> "G" [] c = "G" -> "C"
      [] c = "a" -> "t" [] c = "t" -> "a" [] c = "c" -> "g" [] c = "g" -> "c"
      [] OTHER -> c

revcomp(s) == [i \in 1..Len(s) |-> complement(s[Len(s) + 1 - i])]

(* ----------------------- alignment operations ------------------------- *)
Match == [op |-> "Match"]
Subst == [op |-> "Subst"]
Ins == [op |-> "Ins"]
Del == [op |-> "Del"]
Xclip(n) == [op |-> "Xclip", n |-> n]
Yclip(n) == [op |-> "Yclip", n |-> n]

IsClip(o) == o.op \in {"Xclip", "Yclip"}
ConsumesX(o) == o.op \in {"Match", "Subst", "Ins"}
ConsumesY(o) == o.op \in {"Match", "Subst", "Del"}

CountX(ops) == Cardinality({i \in 1..Len(ops) : ConsumesX(ops[i])})
CountY(ops) == Cardinality({i \in 1..Len(ops) : ConsumesY(ops[i])})

(* The aligner (bio::alignment::pairwise::Aligner) is external.  It is     *)
(* modelled by what an affine-gap aligner returns: among the traces the     *)
(* mode admits over (x, y), one of those with the best score.  Which of     *)
(* several best traces is returned is left open.  The operations of         *)
(* local(), semiglobal() and global() carry no Xclip/Yclip (the expected    *)
(* texts of the tests at lines 601, 621 and 701 show none).                 *)
RECURSIVE OpsFrom(_, _, _, _)
OpsFrom(x, y, i, j) ==
    {<<>>} \cup
    LET diag == IF i < Len(x) /\ j < Len(y)
                THEN {<<IF score(x[i + 1], y[j + 1]) = 1 THEN Match ELSE Subst>> \o r :
                        r \in OpsFrom(x, y, i + 1, j + 1)}
                ELSE {}
        ins  == IF i < Len(x)
                THEN {<<Ins>> \o r : r \in OpsFrom(x, y, i + 1, j)}
                ELSE {}
        del  == IF j < Len(y)
                THEN {<<Del>> \o r : r \in OpsFrom(x, y, i, j + 1)}
                ELSE {}
    IN diag \cup ins \cup del

xend(al) == al.xstart + CountX(al.operations)
yend(al) == al.ystart + CountY(al.operations)

\* every trace over (x, y) the mode admits: Local may start and stop anywhere,
\* Semiglobal consumes all of x, Global consumes all of x and of y
Traces(alignment_command, x, y) ==
    LET all == UNION {UNION {
                 {[operations |-> o, xstart |-> xs, ystart |-> ys] :
                    o \in OpsFrom(x, y, xs, ys)} :
                 xs \in 0..Len(x)} : ys \in 0..Len(y)}
    IN CASE alignment_command = "Local" -> all
         [] alignment_command = "Semiglobal" ->
              {al \in all : al.xstart = 0 /\ xend(al) = Len(x)}
         [] alignment_command = "Global" ->
              {al \in all : /\ al.xstart = 0 /\ xend(al) = Len(x)
                            /\ al.ystart = 0 /\ yend(al) = Len(y)}

\* score of a trace: the closure `score` on aligned pairs, and for a gap of k
\* bases gap_open + k * gap_extend (both are the negated penalties)
RECURSIVE ScoreFrom(_, _, _, _, _, _, _, _, _)
ScoreFrom(ops, i, x, y, ai, bi, prev, gap_open, gap_extend) ==
    IF i > Len(ops) THEN 0
    ELSE LET o == ops[i]
             gap == IF prev = o.op THEN gap_extend ELSE gap_open + gap_extend
         IN CASE o.op \in {"Match", "Subst"} ->
                   score(x[ai + 1], y[bi + 1])
                     + ScoreFrom(ops, i + 1, x, y, ai + 1, bi + 1, o.op, gap_open, gap_extend)
              [] o.op = "Ins" ->
                   gap + ScoreFrom(ops, i + 1, x, y, ai + 1, bi, o.op, gap_open, gap_extend)
              [] o.op = "Del" ->
                   gap + ScoreFrom(ops, i + 1, x, y, ai, bi + 1, o.op, gap_open, gap_extend)
              [] OTHER ->
                   ScoreFrom(ops, i + 1, x, y, ai, bi, o.op, gap_open, gap_extend)

Scored(tr, x, y, gap_open, gap_extend) ==
    [operations |-> tr.operations, xstart |-> tr.xstart, ystart |-> tr.ystart,
     score |-> ScoreFrom(tr.operations, 1, x, y, tr.xstart, tr.ystart, "none",
                         gap_open, gap_extend)]

run_alignment(alignment_command, x, y, gap_open, gap_extend) ==
    LET scored == {Scored(tr, x, y, gap_open, gap_extend) :
                     tr \in Traces(alignment_command, x, y)}
        best == CHOOSE v \in {al.score : al \in scored} :
                    \A w \in {al.score : al \in scored} : w <= v
    IN {al \in scored : al.score = best}

(* ------------------------- make_display_lines -------------------------- *)
\* chunks with a fault: one operation too many per chunk
RECURSIVE chunks_one_more(_, _)
chunks_one_more(s, size) ==
    IF Len(s) = 0 THEN <<>>
    ELSE IF Len(s) <= size + 1 THEN <<s>>
    ELSE <<SubSeq(s, 1, size + 1)>>
           \o chunks_one_more(SubSeq(s, size + 2, Len(s)), size)

RECURSIVE chunks(_, _)
chunks(s, size) ==
    IF Len(s) = 0 THEN <<>>
    ELSE IF Len(s) <= size THEN <<s>>
    ELSE <<SubSeq(s, 1, size)>> \o chunks(SubSeq(s, size + 1, Len(s)), size)

\* apply_op with a fault: Ins appends the query character without advancing a_index
apply_op_ins_keeps_cursor(st, o, a_seq, b_seq) ==
    CASE o.op \in {"Match", "Subst"} ->
           [a_alignment |-> Append(st.a_alignment, a_seq[st.a_index + 1]),
            b_alignment |-> Append(st.b_alignment, b_seq[st.b_index + 1]),
            alignment_string |-> Append(st.alignment_string,
                                        IF o.op = "Match" THEN "|" ELSE "."),
            a_index |-> st.a_index + 1, b_index |-> st.b_index + 1]
      [] o.op = "Del" ->
           [a_alignment |-> Append(st.a_alignment, "-"),
            b_alignment |-> Append(st.b_alignment, b_seq[st.b_index + 1]),
            alignment_string |-> Append(st.alignment_string, " "),
            a_index |-> st.a_index, b_index |-> st.b_index + 1]
      [] o.op = "Ins" ->
           [a_alignment |-> Append(st.a_alignment, a_seq[st.a_index + 1]),
            b_alignment |-> Append(st.b_alignment, "-"),
            alignment_string |-> Append(st.alignment_string, " "),
            a_index |-> st.a_index, b_index |-> st.b_index]
      [] o.op = "Xclip" ->
           [a_alignment |-> st.a_alignment \o Repeat("-", o.n),
            b_alignment |-> st.b_alignment \o Repeat(" ", o.n),
            alignment_string |-> st.alignment_string \o Repeat(" ", o.n),
            a_index |-> st.a_index, b_index |-> st.b_index]
      [] o.op = "Yclip" ->
           [a_alignment |-> st.a_alignment \o Repeat(" ", o.n),
            b_alignment |-> st.b_alignment \o Repeat("-", o.n),
            alignment_string |-> st.alignment_string \o Repeat(" ", o.n),
            a_index |-> st.a_index, b_index |-> st.b_index]

\* apply_op with a fault: a Subst is drawn with the Match symbol
apply_op_subst_as_match(st, o, a_seq, b_seq) ==
    CASE o.op = "Match" ->
           [a_alignment |-> Append(st.a_alignment, a_seq[st.a_index + 1]),
            b_alignment |-> Append(st.b_alignment, b_seq[st.b_index + 1]),
            alignment_string |-> Append(st.alignment_string, "|"),
            a_index |-> st.a_index + 1, b_index |-> st.b_index + 1]
      [] o.op = "Del" ->
           [a_alignment |-> Append(st.a_alignment, "-"),
            b_alignment |-> Append(st.b_alignment, b_seq[st.b_index + 1]),
            alignment_string |-> Append(st.alignment_string, " "),
            a_index |-> st.a_index, b_index |-> st.b_index + 1]
      [] o.op = "Ins" ->
           [a_alignment |-> Append(st.a_alignment, a_seq[st.a_index + 1]),
            b_alignment |-> Append(st.b_alignment, "-"),
            alignment_string |-> Append(st.alignment_string, " "),
            a_index |-> st.a_index + 1, b_index |-> st.b_index]
      [] o.op = "Subst" ->
           [a_alignment |-> Append(st.a_alignment, a_seq[st.a_index + 1]),
            b_alignment |-> Append(st.b_alignment, b_seq[st.b_index + 1]),
            alignment_string |-> Append(st.alignment_string, "|"),
            a_index |-> st.a_index + 1, b_index |-> st.b_index + 1]
      [] o.op = "Xclip" ->
           [a_alignment |-> st.a_alignment \o Repeat("-", o.n),
            b_alignment |-> st.b_alignment \o Repeat(" ", o.n),
            alignment_string |-> st.alignment_string \o Repeat(" ", o.n),
            a_index |-> st.a_index, b_index |-> st.b_index]
      [] o.op = "Yclip" ->
           [a_alignment |-> st.a_alignment \o Repeat(" ", o.n),
            b_alignment |-> st.b_alignment \o Repeat("-", o.n),
            alignment_string |-> st.alignment_string \o Repeat(" ", o.n),
            a_index |-> st.a_index, b_index |-> st.b_index]

\* the body of `for op in op_chunk`: st carries the three rows and both cursors
apply_op(st, o, a_seq, b_seq) ==
    CASE o.op = "Match" ->
           [a_alignment |-> Append(st.a_alignment, a_seq[st.a_index + 1]),
            b_alignment |-> Append(st.b_alignment, b_seq[st.b_index + 1]),
            alignment_string |-> Append(st.alignment_string, "|"),
            a_index |-> st.a_index + 1, b_index |-> st.b_index + 1]
      [] o.op = "Del" ->
           [a_alignment |-> Append(st.a_alignment, "-"),
            b_alignment |-> Append(st.b_alignment, b_seq[st.b_index + 1]),
            alignment_string |-> Append(st.alignment_string, " "),
            a_index |-> st.a_index, b_index |-> st.b_index + 1]
      [] o.op = "Ins" ->
           [a_alignment |-> Append(st.a_alignment, a_seq[st.a_index + 1]),
            b_alignment |-> Append(st.b_alignment, "-"),
            alignment_string |-> Append(st.alignment_string, " "),
            a_index |-> st.a_index + 1, b_index |-> st.b_index]
      [] o.op = "Subst" ->
           [a_alignment |-> Append(st.a_alignment, a_seq[st.a_index + 1]),
            b_alignment |-> Append(st.b_alignment, b_seq[st.b_index + 1]),
            alignment_string |-> Append(st.alignment_string, "."),
            a_index |-> st.a_index + 1, b_index |-> st.b_index + 1]
      [] o.op = "Xclip" ->
           [a_alignment |-> st.a_alignment \o Repeat("-", o.n),
            b_alignment |-> st.b_alignment \o Repeat(" ", o.n),
            alignment_string |-> st.alignment_string \o Repeat(" ", o.n),
            a_index |-> st.a_index, b_index |-> st.b_index]
      [] o.op = "Yclip" ->
           [a_alignment |-> st.a_alignment \o Repeat(" ", o.n),
            b_alignment |-> st.b_alignment \o Repeat("-", o.n),
            alignment_string |-> st.alignment_string \o Repeat(" ", o.n),
            a_index |-> st.a_index, b_index |-> st.b_index]

RECURSIVE expand_chunk(_, _, _, _, _)
expand_chunk(op_chunk, i, st, a_seq, b_seq) ==
    IF i > Len(op_chunk) THEN st
    ELSE expand_chunk(op_chunk, i + 1, apply_op(st, op_chunk[i], a_seq, b_seq), a_seq, b_seq)

\* chunk_step with a fault: a_start / b_start are not moved to the cursors
chunk_step_stale_start(loop, op_chunk, a_seq, b_seq) ==
    LET st == expand_chunk(op_chunk, 1,
                 [a_alignment |-> <<>>, b_alignment |-> <<>>, alignment_string |-> <<>>,
                  a_index |-> loop.a_index, b_index |-> loop.b_index], a_seq, b_seq)
        display_line == [a_alignment |-> st.a_alignment,
                         b_alignment |-> st.b_alignment,
                         a_start |-> loop.a_start, a_end |-> st.a_index,
                         b_start |-> loop.b_start, b_end |-> st.b_index,
                         alignment_string |-> st.alignment_string]
    IN [a_start |-> loop.a_start, b_start |-> loop.b_start,
        a_index |-> st.a_index, b_index |-> st.b_index,
        display_lines |-> Append(loop.display_lines, display_line)]

\* one iteration of `for op_chunk in ...chunks(line_width)` (lines 176-248):
\* loop carries a_start, b_start, a_index, b_index and display_lines
chunk_step(loop, op_chunk, a_seq, b_seq) ==
    LET st == expand_chunk(op_chunk, 1,
                 [a_alignment |-> <<>>, b_alignment |-> <<>>, alignment_string |-> <<>>,
                  a_index |-> loop.a_index, b_index |-> loop.b_index], a_seq, b_seq)
        display_line == [a_alignment |-> st.a_alignment,
                         b_alignment |-> st.b_alignment,
                         a_start |-> loop.a_start, a_end |-> st.a_index,
                         b_start |-> loop.b_start, b_end |-> st.b_index,
                         alignment_string |-> st.alignment_string]
    IN [a_start |-> st.a_index, b_start |-> st.b_index,
        a_index |-> st.a_index, b_index |-> st.b_index,
        display_lines |-> Append(loop.display_lines, display_line)]

RECURSIVE chunk_loop(_, _, _, _, _)
chunk_loop(loop, cs, i, a_seq, b_seq) ==
    IF i > Len(cs) THEN loop
    ELSE chunk_loop(chunk_step(loop, cs[i], a_seq, b_seq), cs, i + 1, a_seq, b_seq)

\* returns <<display_lines, a_index>>; line_width = 0 makes chunks() panic (see MakeDisplayLines)
make_display_lines(al, a_seq, b_seq, width) ==
    LET loop == chunk_loop([a_start |-> al.xstart, b_start |-> al.ystart,
                            a_index |-> al.xstart, b_index |-> al.ystart,
                            display_lines |-> <<>>],
                           chunks(al.operations, width), 1, a_seq, b_seq)
    IN <<loop.display_lines, loop.a_index>>

(* ------------------------ format_display_lines ------------------------- *)
\* calculate_formatted_coordinates with a fault: the start shift is applied to the
\* query only, the reference start is left zero-based
calculate_formatted_coordinates_raw_ref(line, final_a_end, is_rc, use_0_based_coordinates) ==
    LET a_start0 == IF is_rc THEN final_a_end - line.a_start ELSE line.a_start
        a_end0 == IF is_rc THEN final_a_end - line.a_end + 1 ELSE line.a_end
        a_start1 == IF ~use_0_based_coordinates /\ ~is_rc THEN a_start0 + 1 ELSE a_start0
        a_end1 == IF use_0_based_coordinates /\ is_rc THEN a_end0 - 1 ELSE a_end0
    IN <<a_start1, a_end1, line.b_start>>

calculate_formatted_coordinates(line, final_a_end, is_rc, use_0_based_coordinates) ==
    LET a_start0 == IF is_rc THEN final_a_end - line.a_start ELSE line.a_start
        a_end0 == IF is_rc THEN final_a_end - line.a_end + 1 ELSE line.a_end
        a_start1 == IF ~use_0_based_coordinates /\ ~is_rc THEN a_start0 + 1 ELSE a_start0
        a_end1 == IF use_0_based_coordinates /\ is_rc THEN a_end0 - 1 ELSE a_end0
        b_start1 == IF ~use_0_based_coordinates THEN line.b_start + 1 ELSE line.b_start
    IN <<a_start1, a_end1, b_start1>>

Max(p, q) == IF p >= q THEN p ELSE q

\* max_coordinate with a fault: only the query starts are looked at
RECURSIVE max_coordinate_query_only(_, _, _, _, _)
max_coordinate_query_only(lines, i, final_a_end, is_rc, use_0_based_coordinates) ==
    IF i > Len(lines) THEN 0
    ELSE LET c == calculate_formatted_coordinates(lines[i], final_a_end, is_rc,
                                                   use_0_based_coordinates)
         IN Max(c[1],
                max_coordinate_query_only(lines, i + 1, final_a_end, is_rc,
                                          use_0_based_coordinates))

RECURSIVE max_coordinate(_, _, _, _, _)
max_coordinate(lines, i, final_a_end, is_rc, use_0_based_coordinates) ==
    IF i > Len(lines) THEN 0
    ELSE LET c == calculate_formatted_coordinates(lines[i], final_a_end, is_rc,
                                                   use_0_based_coordinates)
         IN Max(Max(c[1], c[3]),
                max_coordinate(lines, i + 1, final_a_end, is_rc, use_0_based_coordinates))

\* line_output with a fault: " RC" is appended to the query row of a
\* reverse-complemented alignment
line_output_rc_marker(line, width, hide, final_a_end, is_rc, use_0_based_coordinates) ==
    IF hide
    THEN line.a_alignment \o <<"\n">> \o line.alignment_string \o <<"\n">> \o line.b_alignment
    ELSE LET c == calculate_formatted_coordinates(line, final_a_end, is_rc,
                                                   use_0_based_coordinates)
         IN pad_left(to_string(c[1]), width) \o <<" ">> \o line.a_alignment \o <<" ">>
              \o to_string(c[2]) \o (IF is_rc THEN <<" ", "R", "C">> ELSE <<>>) \o <<"\n">>
              \o pad_left(<<>>, width) \o <<" ">> \o line.alignment_string \o <<"\n">>
              \o pad_left(to_string(c[3]), width) \o <<" ">> \o line.b_alignment \o <<" ">>
              \o to_string(line.b_end)

line_output(line, width, hide, final_a_end, is_rc, use_0_based_coordinates) ==
    IF hide
    THEN line.a_alignment \o <<"\n">> \o line.alignment_string \o <<"\n">> \o line.b_alignment
    ELSE LET c == calculate_formatted_coordinates(line, final_a_end, is_rc,
                                                   use_0_based_coordinates)
             a_start_text == pad_left(to_string(c[1]), width)
             b_start_text == pad_left(to_string(c[3]), width)
             alignment_string_start_text == pad_left(<<>>, width)
         IN a_start_text \o <<" ">> \o line.a_alignment \o <<" ">> \o to_string(c[2])
              \o <<"\n">>
              \o alignment_string_start_text \o <<" ">> \o line.alignment_string \o <<"\n">>
              \o b_start_text \o <<" ">> \o line.b_alignment \o <<" ">> \o to_string(line.b_end)

\* format_display_lines with a fault: lines are joined by one newline, no blank line
format_display_lines_no_blank(lines, hide, final_a_end, is_rc, use_0_based_coordinates) ==
    LET width == Len(to_string(max_coordinate(lines, 1, final_a_end, is_rc,
                                               use_0_based_coordinates)))
    IN join([i \in 1..Len(lines) |->
               line_output(lines[i], width, hide, final_a_end, is_rc,
                           use_0_based_coordinates)],
            <<"\n">>)

format_display_lines(lines, hide, final_a_end, is_rc, use_0_based_coordinates) ==
    LET width == Len(to_string(max_coordinate(lines, 1, final_a_end, is_rc,
                                               use_0_based_coordinates)))
    IN join([i \in 1..Len(lines) |->
               line_output(lines[i], width, hide, final_a_end, is_rc,
                           use_0_based_coordinates)],
            <<"\n", "\n">>)

(* ------------------------------ pairwise ------------------------------- *)
\* select_orientation with a fault: a tie goes to the reverse complement
select_orientation_tie_to_rc(alignment_fwd, a_fwd, alignment_rc, a_rc) ==
    IF alignment_fwd.score > alignment_rc.score
    THEN <<alignment_fwd, a_fwd, FALSE>>
    ELSE <<alignment_rc, a_rc, TRUE>>

select_orientation(alignment_fwd, a_fwd, alignment_rc, a_rc) ==
    IF alignment_fwd.score >= alignment_rc.score
    THEN <<alignment_fwd, a_fwd, FALSE>>
    ELSE <<alignment_rc, a_rc, TRUE>>

AlignmentCommands == {"Local", "Global", "Semiglobal"}
\* <<gap_open, gap_extend>> as given on the command line
GapPenalties == {<<0, 0>>, <<DefaultGapOpen, DefaultGapExtend>>}
NoAlignment == [operations |-> <<>>, xstart |-> 0, ystart |-> 0, score |-> NoScore]

(* pairwise's arguments other than seqs are read-only inputs; each one is   *)
(* drawn at the step that first reads it and is Unread before that.         *)
VARIABLES
    pc,                 \* position inside pairwise
    seqs,               \* Vec<String> argument
    alignment_command,  \* AlignmentCommand argument
    gap_open_score,     \* the shadowed (negated) gap_open_score
    gap_extend_score,   \* the shadowed (negated) gap_extend_score
    try_rc,             \* opts.try_rc
    line_width,         \* opts.line_width
    hide_coords,        \* opts.hide_coords
    use_0_based_coords, \* opts.use_0_based_coords
    alignment,          \* the binding `alignment` (forward, then the chosen one)
    a,                  \* the binding `a` (seqs[0], then the chosen query string)
    a_is_rc,
    rc_score,           \* alignment_rc.score, NoScore when no second alignment was run
    display_lines,
    a_end,              \* second component of make_display_lines' result
    output,             \* the text of Ok(pretty_alignment)
    aligner_calls       \* number of run_alignment calls so far

vars == <<pc, seqs, alignment_command, gap_open_score, gap_extend_score, try_rc, line_width, hide_coords,
          use_0_based_coords, alignment, a, a_is_rc, rc_score, display_lines, a_end,
          output, aligner_calls>>

SeqLists == UNION {[1..n -> Strings] : n \in 0..MaxSeqs}

Init ==
    /\ pc = "start"
    /\ seqs \in SeqLists
    /\ alignment_command = Unread
    /\ gap_open_score = Unread
    /\ gap_extend_score = Unread
    /\ try_rc = Unread
    /\ line_width = Unread
    /\ hide_coords = Unread
    /\ use_0_based_coords = Unread
    /\ alignment = NoAlignment
    /\ a = <<>>
    /\ a_is_rc = FALSE
    /\ rc_score = NoScore
    /\ display_lines = <<>>
    /\ a_end = 0
    /\ output = NoText
    /\ aligner_calls = 0

\* CheckSeqCount with a fault: only fewer than two sequences are rejected
CheckSeqCount_at_least_two ==
    /\ pc = "start"
    /\ pc' = IF Len(seqs) < 2 THEN "error" ELSE "checked"
    /\ UNCHANGED <<seqs, alignment_command, gap_open_score, gap_extend_score, try_rc,
                   line_width, hide_coords, use_0_based_coords, alignment, a, a_is_rc,
                   rc_score, display_lines, a_end, output, aligner_calls>>

\* lines 273-275
CheckSeqCount ==
    /\ pc = "start"
    /\ pc' = IF Len(seqs) # 2 THEN "error" ELSE "checked"
    /\ UNCHANGED <<seqs, alignment_command, gap_open_score, gap_extend_score, try_rc, line_width, hide_coords,
                   use_0_based_coords, alignment, a, a_is_rc, rc_score, display_lines,
                   a_end, output, aligner_calls>>

\* lines 276-293
AlignForward ==
    /\ pc = "checked"
    /\ alignment_command' \in AlignmentCommands
    /\ \E penalties \in GapPenalties :
         /\ gap_open_score' = -penalties[1]
         /\ gap_extend_score' = -penalties[2]
    /\ a' = seqs[1]
    /\ alignment' \in run_alignment(alignment_command', seqs[1], seqs[2],
                                    gap_open_score', gap_extend_score')
    /\ aligner_calls' = aligner_calls + 1
    /\ pc' = "aligned"
    /\ UNCHANGED <<seqs, try_rc, line_width, hide_coords, use_0_based_coords, a_is_rc,
                   rc_score, display_lines, a_end, output>>

\* lines 294-305
SelectOrientation ==
    /\ pc = "aligned"
    /\ try_rc' \in BOOLEAN
    /\ IF try_rc'
       THEN \E alignment_rc \in run_alignment(alignment_command, revcomp(a), seqs[2],
                                              gap_open_score, gap_extend_score) :
              LET chosen == select_orientation(alignment, a, alignment_rc, revcomp(a))
              IN /\ alignment' = chosen[1]
                 /\ a' = chosen[2]
                 /\ a_is_rc' = chosen[3]
                 /\ rc_score' = alignment_rc.score
                 /\ aligner_calls' = aligner_calls + 1
       ELSE /\ a_is_rc' = FALSE
            /\ UNCHANGED <<alignment, a, rc_score, aligner_calls>>
    /\ pc' = "selected"
    /\ UNCHANGED <<seqs, alignment_command, gap_open_score, gap_extend_score, line_width, hide_coords, use_0_based_coords,
                   display_lines, a_end, output>>

\* line 307; slice::chunks panics when the chunk size is 0
MakeDisplayLines ==
    /\ pc = "selected"
    /\ line_width' \in 0..MaxLineWidth
    /\ IF line_width' = 0
       THEN /\ pc' = "panicked"
            /\ UNCHANGED <<display_lines, a_end>>
       ELSE LET r == make_display_lines(alignment, a, seqs[2], line_width')
            IN /\ display_lines' = r[1]
               /\ a_end' = r[2]
               /\ pc' = "lines"
    /\ UNCHANGED <<seqs, alignment_command, gap_open_score, gap_extend_score, try_rc, hide_coords, use_0_based_coords,
                   alignment, a, a_is_rc, rc_score, output, aligner_calls>>

\* lines 308-315
FormatDisplayLines ==
    /\ pc = "lines"
    /\ hide_coords' \in BOOLEAN
    /\ use_0_based_coords' \in BOOLEAN
    /\ output' = format_display_lines(display_lines, hide_coords', a_end, a_is_rc,
                                      use_0_based_coords')
    /\ pc' = "done"
    /\ UNCHANGED <<seqs, alignment_command, gap_open_score, gap_extend_score, try_rc, line_width, alignment, a, a_is_rc,
                   rc_score, display_lines, a_end, aligner_calls>>

Next ==
    \/ CheckSeqCount
    \/ AlignForward
    \/ SelectOrientation
    \/ MakeDisplayLines
    \/ FormatDisplayLines

Spec == Init /\ [][Next]_vars

(* make_display_lines called on its own.  Its alignment is any trace the    *)
(* aligner returns in some mode, with the clip runs the Alignment type      *)
(* allows before and after the aligned part (clips score 0); the arguments  *)
(* of pairwise that make_display_lines does not receive stay Unread.        *)
ClipOps == {Xclip(n) : n \in 0..MaxClip} \cup {Yclip(n) : n \in 0..MaxClip}
EndClips == {<<>>} \cup {<<c>> : c \in ClipOps}

AlignerTraces(x, y) ==
    UNION {run_alignment(m[1], x, y, -m[2][1], -m[2][2]) :
             m \in AlignmentCommands \X GapPenalties}

AnyAlignment(x, y) ==
    {[operations |-> lead \o al.operations \o trail, xstart |-> al.xstart,
      ystart |-> al.ystart, score |-> al.score] :
       al \in AlignerTraces(x, y), lead \in EndClips, trail \in EndClips}

InitLines ==
    /\ pc = "selected"
    /\ seqs \in [1..2 -> Strings]
    /\ alignment_command = Unread
    /\ gap_open_score = Unread
    /\ gap_extend_score = Unread
    /\ try_rc = Unread
    /\ line_width = Unread
    /\ hide_coords = Unread
    /\ use_0_based_coords = Unread
    /\ a = seqs[1]
    /\ alignment \in AnyAlignment(seqs[1], seqs[2])
    /\ a_is_rc = FALSE
    /\ rc_score = NoScore
    /\ display_lines = <<>>
    /\ a_end = 0
    /\ output = NoText
    /\ aligner_calls = 0

NextLines == MakeDisplayLines

SpecLines == InitLines /\ [][NextLines]_vars

(* pairwise on long sequences, from the point where the orientation has     *)
(* been selected.  The query is a run of "C" followed by a short core, the  *)
(* reference a run of "G" followed by a short core, the cores over Bases.   *)
(* No flank base matches any base of the other sequence, so with the        *)
(* default (positive) gap penalties the best local alignments of the long   *)
(* sequences are the best local alignments of the cores, moved by the       *)
(* flank lengths.  The reverse complement is tried only for a query         *)
(* without flank (the reverse complement of a "C" flank would match the     *)
(* "G" flank).                                                              *)
Flanks == {0, MaxFlank - 1, MaxFlank}
Shifted(al, px, py) == [al EXCEPT !.xstart = @ + px, !.ystart = @ + py]

InitWide ==
    \E ca \in Strings, cb \in Strings, px \in Flanks, py \in Flanks, rc \in BOOLEAN :
      /\ rc => px = 0
      /\ pc = "selected"
      /\ seqs = <<Repeat("C", px) \o ca, Repeat("G", py) \o cb>>
      /\ alignment_command = "Local"
      /\ gap_open_score = -DefaultGapOpen
      /\ gap_extend_score = -DefaultGapExtend
      /\ try_rc = rc
      /\ line_width = Unread
      /\ hide_coords = Unread
      /\ use_0_based_coords = Unread
      /\ \E fwd \in run_alignment("Local", ca, cb, -DefaultGapOpen, -DefaultGapExtend) :
           IF rc
           THEN \E alignment_rc \in run_alignment("Local", revcomp(ca), cb,
                                                  -DefaultGapOpen, -DefaultGapExtend) :
                  LET chosen == select_orientation(Shifted(fwd, px, py), seqs[1],
                                                   Shifted(alignment_rc, px, py),
                                                   revcomp(seqs[1]))
                  IN /\ alignment = chosen[1]
                     /\ a = chosen[2]
                     /\ a_is_rc = chosen[3]
                     /\ rc_score = alignment_rc.score
                     /\ aligner_calls = 2
           ELSE /\ alignment = Shifted(fwd, px, py)
                /\ a = seqs[1]
                /\ a_is_rc = FALSE
                /\ rc_score = NoScore
                /\ aligner_calls = 1
      /\ display_lines = <<>>
      /\ a_end = 0
      /\ output = NoText

NextWide ==
    \/ MakeDisplayLines
    \/ FormatDisplayLines

SpecWide == InitWide /\ [][NextWide]_vars
(* ===================== reading the rendered text ======================= *)
HasNewline(t) == \E i \in 1..Len(t) : t[i] = "\n"

RECURSIVE SplitLines(_)
SplitLines(t) ==
    IF ~HasNewline(t) THEN <<t>>
    ELSE LET i == CHOOSE k \in 1..Len(t) : t[k] = "\n" /\ \A m \in 1..(k - 1) : t[m] # "\n"
         IN <<SubSeq(t, 1, i - 1)>> \o SplitLines(SubSeq(t, i + 1, Len(t)))

DigitValue(c) == CHOOSE d \in 0..9 : Digits[d + 1] = c

RECURSIVE ParseNat(_)
ParseNat(ds) ==
    IF Len(ds) = 0 THEN -1
    ELSE IF Len(ds) = 1 THEN DigitValue(ds[1])
    ELSE 10 * ParseNat(SubSeq(ds, 1, Len(ds) - 1)) + DigitValue(ds[Len(ds)])

\* the number a row starts with, after its leading blanks (-1 when there is none)
LeadingNumber(row) ==
    LET blanks == {i \in 0..Len(row) : \A m \in 1..i : row[m] = " "}
        s == (CHOOSE i \in blanks : \A m \in blanks : m <= i) + 1
        runs == {e \in (s - 1)..Len(row) : \A m \in s..e : row[m] \in DigitChars}
        e == CHOOSE i \in runs : \A m \in runs : m <= i
    IN ParseNat(SubSeq(row, s, e))

\* the number a row ends with (-1 when there is none)
TrailingNumber(row) ==
    LET runs == {b \in 1..(Len(row) + 1) : \A m \in b..Len(row) : row[m] \in DigitChars}
        b == CHOOSE i \in runs : \A m \in runs : i <= m
    IN ParseNat(SubSeq(row, b, Len(row)))

EndsWith(row, suffix) ==
    /\ Len(row) >= Len(suffix)
    /\ SubSeq(row, Len(row) - Len(suffix) + 1, Len(row)) = suffix

Contains(t, part) ==
    \E i \in 1..(Len(t) - Len(part) + 1) : SubSeq(t, i, i + Len(part) - 1) = part

Rows == SplitLines(output)
QueryRow(k) == Rows[4 * (k - 1) + 1]
SymbolRow(k) == Rows[4 * (k - 1) + 2]
ReferenceRow(k) == Rows[4 * (k - 1) + 3]
Shift(zero_based) == IF zero_based THEN 0 ELSE 1
Rendered == pc = "done"
CoordsShown == pc = "done" /\ hide_coords = FALSE

(* =============================== claims ================================ *)

\* C1: orientation selection.  In the step that selects the orientation, the
\* forward alignment, the original query and a_is_rc = FALSE are kept when
\* try_rc is false or the reverse-complement score is not strictly greater than
\* the forward score; otherwise the reverse-complement alignment and the
\* reverse-complemented query are taken with a_is_rc = TRUE.
C1_OrientationSelection ==
    [][pc = "aligned" /\ pc' = "selected" =>
         LET rc_wins == try_rc' /\ rc_score' > alignment.score
         IN /\ a_is_rc' = rc_wins
            /\ ~try_rc' => rc_score' = NoScore
            /\ rc_wins =>
                 /\ a' = revcomp(seqs[1])
                 /\ alignment'.score = rc_score'
                 /\ alignment' \in run_alignment(alignment_command, revcomp(seqs[1]), seqs[2],
                                               gap_open_score, gap_extend_score)
            /\ ~rc_wins => alignment' = alignment /\ a' = seqs[1]]_vars

C1_Witness ==
    /\ pc = "selected"
    /\ try_rc = TRUE
    /\ a_is_rc
    /\ a = revcomp(seqs[1])
    /\ a # seqs[1]
    /\ alignment.score = rc_score

\* C2: when the reverse-complement orientation was selected, every line's
\* displayed query coordinates are inverted against the length L of the
\* original query: start = L - raw_start, end = L - raw_end + 1, minus 1 more
\* with zero-based coordinates, in every alignment mode.
C2_RcCoordinatesUseQueryLength ==
    (CoordsShown /\ a_is_rc) =>
        \A k \in 1..Len(display_lines) :
            /\ LeadingNumber(QueryRow(k)) = Len(seqs[1]) - display_lines[k].a_start
            /\ TrailingNumber(QueryRow(k)) =
                 Len(seqs[1]) - display_lines[k].a_end + 1
                   - (IF use_0_based_coords THEN 1 ELSE 0)

\* C3 (as claimed): with the reverse-complement alignment chosen and
\* coordinates shown the query row carries " RC" right after the query end
\* coordinate; with the forward orientation no "RC" appears in the output.
C3_RcMarkerShown ==
    CoordsShown =>
        /\ (a_is_rc /\ Len(display_lines) >= 1) =>
              /\ Len(QueryRow(1)) > 3
              /\ EndsWith(QueryRow(1), <<" ", "R", "C">>)
              /\ QueryRow(1)[Len(QueryRow(1)) - 3] \in DigitChars
        /\ ~a_is_rc => ~Contains(output, <<"R", "C">>)

\* C3 (amended): in either orientation the output carries no "RC" marker; with
\* coordinates shown every query row ends with the digits of its query end
\* coordinate and nothing follows them.
C3_NoRcMarker ==
    Rendered =>
        /\ ~Contains(output, <<"R", "C">>)
        /\ hide_coords = FALSE =>
             \A k \in 1..Len(display_lines) :
                 /\ QueryRow(k)[Len(QueryRow(k))] \in DigitChars
                 /\ EndsWith(QueryRow(k), <<" ">> \o to_string(TrailingNumber(QueryRow(k))))

C3_Witness ==
    /\ CoordsShown
    /\ a_is_rc
    /\ Len(display_lines) >= 1

\* C4: forward and reference coordinates.  On every line the displayed
\* reference start is the raw start plus 1 (unchanged with zero-based
\* coordinates) and the displayed reference end is the raw end, in both
\* orientations; in the forward orientation the query start and end follow
\* the same rule.
C4_ForwardAndReferenceCoordinates ==
    CoordsShown =>
        \A k \in 1..Len(display_lines) :
            /\ LeadingNumber(ReferenceRow(k)) =
                 display_lines[k].b_start + Shift(use_0_based_coords)
            /\ TrailingNumber(ReferenceRow(k)) = display_lines[k].b_end
            /\ ~a_is_rc =>
                 /\ LeadingNumber(QueryRow(k)) =
                      display_lines[k].a_start + Shift(use_0_based_coords)
                 /\ TrailingNumber(QueryRow(k)) = display_lines[k].a_end

C4_Witness ==
    /\ CoordsShown
    /\ ~a_is_rc
    /\ use_0_based_coords = FALSE
    /\ Len(display_lines) >= 2
    /\ display_lines[2].a_start > 0
    /\ display_lines[2].b_start > 0

\* C7: with hide_coords the output is, line after line, the query row, the
\* symbol row and the reference row exactly as built, each on its own line,
\* with one blank line between consecutive display lines and nothing after
\* the last; it holds no digit, whatever the orientation and coordinate base.
C7_HiddenCoordinates ==
    (Rendered /\ hide_coords = TRUE) =>
        /\ \A i \in 1..Len(output) : output[i] \notin DigitChars
        /\ IF Len(display_lines) = 0 THEN output = <<>>
           ELSE /\ Len(Rows) = 4 * Len(display_lines) - 1
                /\ \A k \in 1..Len(display_lines) :
                     /\ QueryRow(k) = display_lines[k].a_alignment
                     /\ SymbolRow(k) = display_lines[k].alignment_string
                     /\ ReferenceRow(k) = display_lines[k].b_alignment
                     /\ k < Len(display_lines) => Rows[4 * k] = <<>>

C7_Witness ==
    /\ Rendered
    /\ hide_coords = TRUE
    /\ a_is_rc
    /\ use_0_based_coords = FALSE
    /\ Len(display_lines) >= 2

\* C8: with a number of sequences other than two, pairwise stops with an error
\* before the aligner runs and before any display line or text exists; with
\* exactly two sequences that error never occurs.
C8_SequenceCountError ==
    /\ Len(seqs) # 2 =>
         /\ pc \in {"start", "error"}
         /\ aligner_calls = 0
         /\ display_lines = <<>>
         /\ output = NoText
    /\ Len(seqs) = 2 => pc # "error"

C8_Witness ==
    /\ pc = "error"
    /\ Len(seqs) = 3

\* C9: once a valid trace exists, rendering completes and returns text without
\* failing for every line_width the command line accepts (any unsigned
\* integer, 0 included).
C9_RenderingNeverFails ==
    pc # "panicked"

(* ------------- make_display_lines against the operation trace ----------- *)
Min(p, q) == IF p <= q THEN p ELSE q
NumGroups == (Len(alignment.operations) + line_width - 1) \div line_width
\* the k-th run of line_width consecutive operations (the last may be shorter)
Group(k) ==
    SubSeq(alignment.operations, (k - 1) * line_width + 1,
           Min(k * line_width, Len(alignment.operations)))
RenderedWidth(o) == IF IsClip(o) THEN o.n ELSE 1

RECURSIVE SumWidths(_)
SumWidths(ops) == IF Len(ops) = 0 THEN 0 ELSE RenderedWidth(Head(ops)) + SumWidths(Tail(ops))

SymbolsOf(o) ==
    CASE o.op = "Match" -> <<"|">>
      [] o.op = "Subst" -> <<".">>
      [] o.op \in {"Ins", "Del"} -> <<" ">>
      [] OTHER -> [i \in 1..o.n |-> " "]

RECURSIVE SymbolRowOf(_)
SymbolRowOf(ops) ==
    IF Len(ops) = 0 THEN <<>> ELSE SymbolsOf(Head(ops)) \o SymbolRowOf(Tail(ops))

IsBase(c) == c \notin {"-", " "}
LinesBuilt == pc = "lines"

\* C5: line continuity.  The first display line starts at the alignment's
\* xstart / ystart, every later line starts, in the query and in the
\* reference, where the line before it ended, and the query end of the last
\* line is the final query end that make_display_lines returns.
C5_LineContinuity ==
    LinesBuilt =>
        /\ Len(display_lines) >= 1 =>
             /\ display_lines[1].a_start = alignment.xstart
             /\ display_lines[1].b_start = alignment.ystart
             /\ display_lines[Len(display_lines)].a_end = a_end
        /\ \A k \in 1..(Len(display_lines) - 1) :
             /\ display_lines[k + 1].a_start = display_lines[k].a_end
             /\ display_lines[k + 1].b_start = display_lines[k].b_end

C5_Witness ==
    /\ LinesBuilt
    /\ Len(display_lines) >= 3
    /\ display_lines[2].a_start > display_lines[1].a_start
    /\ display_lines[3].b_start > display_lines[2].b_start
    /\ alignment.xstart > 0

\* C6: chunking is by operation count.  There is one display line per run of
\* line_width consecutive operations, in order, the last run holding the 1 to
\* line_width operations that remain; each line shows exactly the operations
\* of its run, a clip run of any n counting as one operation, so that a line
\* may be wider than line_width.
C6_ChunkingByOperationCount ==
    LinesBuilt =>
        /\ Len(display_lines) = NumGroups
        /\ \A k \in 1..Len(display_lines) :
             /\ Len(Group(k)) \in 1..line_width
             /\ k < Len(display_lines) => Len(Group(k)) = line_width
             /\ display_lines[k].alignment_string = SymbolRowOf(Group(k))
             /\ display_lines[k].a_end - display_lines[k].a_start = CountX(Group(k))
             /\ display_lines[k].b_end - display_lines[k].b_start = CountY(Group(k))

C6_Witness ==
    /\ LinesBuilt
    /\ Len(display_lines) >= 2
    /\ \E k \in 1..Len(display_lines) :
         Len(display_lines[k].alignment_string) > line_width

\* C10: cursor accounting.  On every display line a_end - a_start is the
\* number of Match, Subst and Ins operations of its group and b_end - b_start
\* the number of Match, Subst and Del operations; clip runs advance neither
\* cursor and add n columns (none for n = 0); the bases shown are the
\* characters of the query / reference at the positions the line consumed.
C10_CursorAccounting ==
    LinesBuilt =>
        \A k \in 1..Len(display_lines) :
            LET line == display_lines[k]
            IN /\ line.a_end - line.a_start = CountX(Group(k))
               /\ line.b_end - line.b_start = CountY(Group(k))
               /\ Len(line.a_alignment) = SumWidths(Group(k))
               /\ Len(line.b_alignment) = SumWidths(Group(k))
               /\ SelectSeq(line.a_alignment, IsBase) = SubSeq(a, line.a_start + 1, line.a_end)
               /\ SelectSeq(line.b_alignment, IsBase) =
                    SubSeq(seqs[2], line.b_start + 1, line.b_end)

C10_Witness ==
    /\ LinesBuilt
    /\ Len(display_lines) >= 2
    /\ Len(alignment.operations) >= 4
    /\ IsClip(alignment.operations[1])
    /\ alignment.operations[1].n > 0
    /\ alignment.operations[Len(alignment.operations)] \in {Xclip(0), Yclip(0)}
    /\ CountX(alignment.operations) >= 1
    /\ CountY(alignment.operations) >= 1

\* the operation of a group that is drawn in column c of the group's rows
\* (an operation takes RenderedWidth columns, a clip run of n = 0 none)
OpAtColumn(ops, c) ==
    LET i == CHOOSE m \in 1..Len(ops) :
                 /\ SumWidths(SubSeq(ops, 1, m - 1)) < c
                 /\ c <= SumWidths(SubSeq(ops, 1, m))
    IN ops[i]

\* C12: row lengths and symbols.  On every display line the query row, the
\* symbol row and the reference row have the same length, the number of
\* non-clip operations of the line's group plus the sum of n over its clip
\* operations; the symbol row has "|" exactly in the columns of Match
\* operations, "." exactly in the columns of Subst operations and a space in
\* every Ins, Del and clip column.
C12_RowLengthsAndSymbols ==
    LinesBuilt =>
        \A k \in 1..Len(display_lines) :
            LET line == display_lines[k]
                ops == Group(k)
                n == Cardinality({i \in 1..Len(ops) : ~IsClip(ops[i])})
                       + SumWidths(SelectSeq(ops, IsClip))
            IN /\ Len(line.a_alignment) = n
               /\ Len(line.alignment_string) = n
               /\ Len(line.b_alignment) = n
               /\ \A c \in 1..n :
                    /\ line.alignment_string[c] = "|" <=> OpAtColumn(ops, c) = Match
                    /\ line.alignment_string[c] = "." <=> OpAtColumn(ops, c) = Subst
                    /\ OpAtColumn(ops, c).op \in {"Ins", "Del", "Xclip", "Yclip"}
                         => line.alignment_string[c] = " "

C12_Witness ==
    /\ LinesBuilt
    /\ Len(display_lines) >= 2
    /\ \E i \in 1..Len(alignment.operations) : alignment.operations[i] = Match
    /\ \E i \in 1..Len(alignment.operations) : alignment.operations[i] = Subst
    /\ \E i \in 1..Len(alignment.operations) :
         IsClip(alignment.operations[i]) /\ alignment.operations[i].n >= 2
    /\ \E k \in 1..Len(display_lines) :
         Len(display_lines[k].alignment_string) >= 3

(* ---------------------- columns of the rendered text -------------------- *)
\* the start coordinates the text shows, over all display lines
DisplayedStarts ==
    {LeadingNumber(QueryRow(k)) : k \in 1..Len(display_lines)}
      \cup {LeadingNumber(ReferenceRow(k)) : k \in 1..Len(display_lines)}
LargestStart == CHOOSE n \in DisplayedStarts : \A m \in DisplayedStarts : m <= n
\* row is: blanks and the digits of n on w characters, one space, then body
StartsAt(row, n, w, body) ==
    /\ Len(row) >= w + 1 + Len(body)
    /\ Len(to_string(n)) <= w
    /\ SubSeq(row, 1, w) = Repeat(" ", w - Len(to_string(n))) \o to_string(n)
    /\ row[w + 1] = " "
    /\ SubSeq(row, w + 2, w + 1 + Len(body)) = body

\* C11: column alignment when coordinates are shown.  With W the number of
\* decimal digits of the largest displayed start coordinate (query or
\* reference) over all display lines, every printed query start and every
\* printed reference start occupies exactly W characters followed by one
\* space, the symbol row begins with W blanks and one space, and so the
\* aligned query, symbol and reference rows begin at column W + 2 on every
\* line of the output.
C11_ColumnAlignment ==
    (CoordsShown /\ Len(display_lines) >= 1) =>
        LET W == Len(to_string(LargestStart))
        IN \A k \in 1..Len(display_lines) :
             /\ StartsAt(QueryRow(k), LeadingNumber(QueryRow(k)), W,
                         display_lines[k].a_alignment)
             /\ StartsAt(ReferenceRow(k), LeadingNumber(ReferenceRow(k)), W,
                         display_lines[k].b_alignment)
             /\ SymbolRow(k) = Repeat(" ", W + 1) \o display_lines[k].alignment_string

C11_Witness ==
    /\ CoordsShown
    /\ Len(display_lines) >= 2
    /\ LargestStart >= 10
    /\ LeadingNumber(QueryRow(1)) < 10
    /\ QueryRow(1)[1] = " "
    /\ LeadingNumber(QueryRow(2)) >= 10
    /\ LeadingNumber(ReferenceRow(2)) < 10
====
